---- MODULE Spec2Model ----
(***************************************************************************)
(* A model of src/src/model.ts: the UV mapper (setUVs), the skin / ears /  *)
(* player assemblies and the animation framework (PlayerAnimation and its  *)
(* five variants).                                                         *)
(*                                                                         *)
(* Numbers.  Time (deltaTime, progress) is held in tenths of a second, as  *)
(* an integer; speed is an integer factor.  A pose field holds a value     *)
(* term <<f, n, d, h, a>>:                                                 *)
(*   <<"lit", n, 10, 0, 0>>   the number n/10                              *)
(*   <<"pi",  n, d, 0, 0>>    the number (n/d)*pi                          *)
(*   <<"sin", n, d, h, a>>    (a/1000) * Math.sin(n/d + h*pi/2)            *)
(*   <<"cos", n, d, h, a>>    (a/1000) * Math.cos(n/d + h*pi/2)            *)
(* Math.sin and Math.cos are left uninterpreted, except Math.sin(0) = 0.   *)
(***************************************************************************)
EXTENDS Integers, Sequences, FiniteSets, TLC

\* ------------------------------------------------------------- bounds
MaxProgress == 6
MaxNegProgress == 2
MaxDeltaTime == 2
MaxNegDeltaTime == 1
MaxSpeed == 2
MaxTextures == 2
MaxListeners == 2
MaxOffset == 1
MaxSize == 2
MaxAtlas == 6

DeltaTimes == (0 - MaxNegDeltaTime)..MaxDeltaTime
Speeds == 0..MaxSpeed
Kinds == {"Idle", "Walking", "Running", "Flying", "Function"}
Null == 0
Textures == 1..MaxTextures
ModelTypes == {"default", "slim"}
ListenerIds == 1..MaxListeners
ListenerLists == UNION {[1..n -> ListenerIds] : n \in 0..MaxListeners}
MaterialNames == {"layer1Material", "layer1MaterialBiased",
                  "layer2Material", "layer2MaterialBiased"}

\* ------------------------------------------------------------- numbers
Lit(n) == <<"lit", n, 10, 0, 0>>
Zero == Lit(0)
PiFrac(n, d) == IF n = 0 THEN Zero ELSE <<"pi", n, d, 0, 0>>
MathSin(n, d, a) == IF n = 0 THEN Zero ELSE <<"sin", n, d, 0, a>>
MathCos(n, d, h, a) == <<"cos", n, d, h, a>>

Vec3(x, y, z) == [x |-> x, y |-> y, z |-> z]
ZeroVec == Vec3(Zero, Zero, Zero)

\* ------------------------------------------------------------- state
VARIABLES
    anim,          \* the PlayerAnimation: kind, speed, paused, progress, headBobbing
    position,      \* PlayerObject.position
    rotation,      \* PlayerObject.rotation
    headRotation,  \* PlayerObject.skin.head.rotation
    call,          \* the last operation called and what its pose function observed
    skinMap,       \* SkinObject._map
    materials,     \* the four materials of the SkinObject: map and needsUpdate
    slim,          \* SkinObject.slim
    modelListeners, \* SkinObject.modelListeners
    listenerCalls, \* the listener invocations of the last modelType assignment
    innerVisible,  \* head.innerLayer.visible
    outerVisible,  \* head.outerLayer.visible
    earsVisible,   \* PlayerObject.ears.visible
    box,           \* a BoxGeometry under setUVs: the arguments, the uv attribute
    elapsed        \* the sum of deltaTime * speed over the unpaused update calls

animVars == <<anim, position, rotation, headRotation>>
poseVars == <<position, rotation, headRotation>>
skinVars == <<skinMap, materials, slim, modelListeners, listenerCalls>>
visibleVars == <<innerVisible, outerVisible, earsVisible>>
vars == <<anim, position, rotation, headRotation, call, skinMap, materials, slim,
          modelListeners, listenerCalls, innerVisible, outerVisible, earsVisible, box,
          elapsed>>

\* The player's pose as one record, as the pose functions receive it.
Player == [position |-> position, rotation |-> rotation, headRotation |-> headRotation]

\* A record of the last operation: its name, its argument (deltaTime of an
\* update, the value of an assignment; for resetJoints, the head's rotation
\* before the call), and for an update the number of calls
\* of the pose function and the progress and delta it was called with.
NoCall(op) == [op |-> op, deltaTime |-> 0, value |-> Null, animateCalls |-> 0,
               seenProgress |-> 0, seenDelta |-> 0]
Assigned(op, value) == [NoCall(op) EXCEPT !.value = value]

\* ------------------------------------------------------------- UV mapper
\* A UV coordinate is the fraction n/d, kept unreduced: x / textureWidth is
\* Frac(x, textureWidth).  The Float32Array rounds each fraction to the
\* nearest float, which keeps 0, 1 and the order of the fractions.
Frac(n, d) == [n |-> n, d |-> d]
OneMinus(f) == Frac(f.d - f.n, f.d)
Vector2(x, y) == [x |-> x, y |-> y]

UVArgs(u, v, width, height, depth, textureWidth, textureHeight) ==
    [u |-> u, v |-> v, width |-> width, height |-> height, depth |-> depth,
     textureWidth |-> textureWidth, textureHeight |-> textureHeight]

toFaceVertices(x1, y1, x2, y2, textureWidth, textureHeight) ==
    << Vector2(Frac(x1, textureWidth), OneMinus(Frac(y2, textureHeight))),
       Vector2(Frac(x2, textureWidth), OneMinus(Frac(y2, textureHeight))),
       Vector2(Frac(x2, textureWidth), OneMinus(Frac(y1, textureHeight))),
       Vector2(Frac(x1, textureWidth), OneMinus(Frac(y1, textureHeight))) >>

\* A mapper whose bottom face reuses the top face's rectangle.
FaceQuadsBottomAsTop(a) ==
    LET u == a.u  v == a.v  width == a.width  height == a.height  depth == a.depth
        tw == a.textureWidth  th == a.textureHeight
        top == toFaceVertices(u + depth, v, u + width + depth, v + depth, tw, th)
    IN  [top |-> top,
         bottom |-> top,
         left |-> toFaceVertices(u, v + depth, u + depth, v + depth + height, tw, th),
         front |-> toFaceVertices(u + depth, v + depth, u + width + depth, v + depth + height, tw, th),
         right |-> toFaceVertices(u + width + depth, v + depth, u + width + depth * 2, v + height + depth, tw, th),
         back |-> toFaceVertices(u + width + depth * 2, v + depth, u + width * 2 + depth * 2, v + height + depth, tw, th)]

\* The six faces' quads before reordering.
FaceQuads(a) ==
    LET u == a.u  v == a.v  width == a.width  height == a.height  depth == a.depth
        tw == a.textureWidth  th == a.textureHeight
    IN  [top |-> toFaceVertices(u + depth, v, u + width + depth, v + depth, tw, th),
         bottom |-> toFaceVertices(u + width + depth, v, u + width * 2 + depth, v + depth, tw, th),
         left |-> toFaceVertices(u, v + depth, u + depth, v + depth + height, tw, th),
         front |-> toFaceVertices(u + depth, v + depth, u + width + depth, v + depth + height, tw, th),
         right |-> toFaceVertices(u + width + depth, v + depth, u + width + depth * 2, v + height + depth, tw, th),
         back |-> toFaceVertices(u + width + depth * 2, v + depth, u + width * 2 + depth * 2, v + height + depth, tw, th)]

\* [q[i0], q[i1], q[i2], q[i3]], the indices counted from 0 as in the source.
Reorder(q, i0, i1, i2, i3) == <<q[i0 + 1], q[i1 + 1], q[i2 + 1], q[i3 + 1]>>

uvRight(q) == Reorder(q.right, 3, 2, 0, 1)
uvLeft(q) == Reorder(q.left, 3, 2, 0, 1)
\* A top face reordered as the bottom face is.
uvTopAsBottom(q) == Reorder(q.top, 0, 1, 3, 2)
uvTop(q) == Reorder(q.top, 3, 2, 0, 1)
uvBottom(q) == Reorder(q.bottom, 0, 1, 3, 2)
uvFront(q) == Reorder(q.front, 3, 2, 0, 1)
uvBack(q) == Reorder(q.back, 3, 2, 0, 1)

\* newUVData: x and y of each corner, face after face.
RECURSIVE Flatten(_)
Flatten(uvArrays) ==
    IF uvArrays = <<>> THEN <<>>
    ELSE LET uvArray == Head(uvArrays)
         IN  << uvArray[1].x, uvArray[1].y, uvArray[2].x, uvArray[2].y,
                uvArray[3].x, uvArray[3].y, uvArray[4].x, uvArray[4].y >>
             \o Flatten(Tail(uvArrays))

setUVs(a) ==
    LET q == FaceQuads(a)
    IN  Flatten(<<uvRight(q), uvLeft(q), uvTop(q), uvBottom(q), uvFront(q), uvBack(q)>>)

setSkinUVs(u, v, width, height, depth) == setUVs(UVArgs(u, v, width, height, depth, 64, 64))

HeadBoxArgs == UVArgs(0, 0, 8, 8, 8, 64, 64)
Head2BoxArgs == UVArgs(32, 0, 8, 8, 8, 64, 64)
EarBoxArgs == UVArgs(0, 0, 6, 6, 1, 14, 7)

\* ------------------------------------------------------------- animations
clamp(num, min, max) == IF num <= min THEN min ELSE IF num >= max THEN max ELSE num

IdleAnimate(player) == player

\* t = progress * 8; sin(t / 4) * 0.2 and sin(t / 5) * 0.1, progress in tenths.
WalkingAnimate(player, progress, headBobbing) ==
    IF headBobbing
    THEN [player EXCEPT !.headRotation.y = MathSin(progress * 8, 40, 200),
                        !.headRotation.x = MathSin(progress * 8, 50, 100)]
    ELSE [player EXCEPT !.headRotation.y = Zero,
                        !.headRotation.x = Zero]

\* t = progress * 15 + pi/2; cos(t * 2), cos(t) * 0.15, cos(t + pi) * 0.01.
RunningAnimate(player, progress) ==
    [player EXCEPT !.position.y = MathCos(progress * 15 * 2, 10, 2, 1000),
                   !.position.x = MathCos(progress * 15, 10, 1, 150),
                   !.rotation.z = MathCos(progress * 15, 10, 3, 10)]

\* t without the guard on the sign of progress.
FlyingTUnguarded(progress) == (progress * 20) \div 10

\* t in tenths * 20 / 10; startProgress in hundredths.
FlyingT(progress) == IF progress > 0 THEN (progress * 20) \div 10 ELSE 0
StartProgress(progress) == clamp(FlyingT(progress) * FlyingT(progress), 0, 100)

FlyingAnimate(player, progress) ==
    LET startProgress == StartProgress(progress)
        bodyPitch == PiFrac(startProgress, 200)
    IN  [player EXCEPT !.rotation.x = bodyPitch,
                       !.headRotation.x = IF startProgress > 50
                                          THEN PiFrac(50 - startProgress, 200)
                                          ELSE Zero]

\* The caller's function of a FunctionAnimation: the documented example
\* (player.rotation.y = progress), which here also turns the head by delta.
Fn(player, progress, delta) ==
    [player EXCEPT !.rotation.y = Lit(progress),
                   !.headRotation.z = Lit(delta)]

FunctionAnimate(player, progress, delta) == Fn(player, progress, delta)

animate(a, player, delta) ==
    CASE a.kind = "Idle" -> IdleAnimate(player)
      [] a.kind = "Walking" -> WalkingAnimate(player, a.progress, a.headBobbing)
      [] a.kind = "Running" -> RunningAnimate(player, a.progress)
      [] a.kind = "Flying" -> FlyingAnimate(player, a.progress)
      [] a.kind = "Function" -> FunctionAnimate(player, a.progress, delta)

\* An update that ignores paused.
updateIgnoringPaused(a, player, deltaTime) ==
    LET delta == deltaTime * a.speed
        posed == animate(a, player, delta)
    IN  [anim |-> [a EXCEPT !.progress = a.progress + delta],
         player |-> posed,
         call |-> [NoCall("update") EXCEPT !.deltaTime = deltaTime,
                                           !.animateCalls = 1,
                                           !.seenProgress = a.progress,
                                           !.seenDelta = delta]]

\* An update that advances progress before it calls the pose function.
updateProgressFirst(a, player, deltaTime) ==
    IF a.paused
    THEN [anim |-> a, player |-> player, call |-> [NoCall("update") EXCEPT !.deltaTime = deltaTime]]
    ELSE LET delta == deltaTime * a.speed
             advanced == [a EXCEPT !.progress = a.progress + delta]
             posed == animate(advanced, player, delta)
         IN  [anim |-> advanced,
              player |-> posed,
              call |-> [NoCall("update") EXCEPT !.deltaTime = deltaTime,
                                                !.animateCalls = 1,
                                                !.seenProgress = advanced.progress,
                                                !.seenDelta = delta]]

\* An update that moves progress backwards.
updateBackwards(a, player, deltaTime) ==
    IF a.paused
    THEN [anim |-> a, player |-> player, call |-> [NoCall("update") EXCEPT !.deltaTime = deltaTime]]
    ELSE LET delta == deltaTime * a.speed
             posed == animate(a, player, delta)
         IN  [anim |-> [a EXCEPT !.progress = a.progress - delta],
              player |-> posed,
              call |-> [NoCall("update") EXCEPT !.deltaTime = deltaTime,
                                                !.animateCalls = 1,
                                                !.seenProgress = a.progress,
                                                !.seenDelta = delta]]

\* PlayerAnimation.update: the animation and the player after the call, and
\* what the pose function was called with.
update(a, player, deltaTime) ==
    IF a.paused
    THEN [anim |-> a, player |-> player, call |-> [NoCall("update") EXCEPT !.deltaTime = deltaTime]]
    ELSE LET delta == deltaTime * a.speed
             posed == animate(a, player, delta)
         IN  [anim |-> [a EXCEPT !.progress = a.progress + delta],
              player |-> posed,
              call |-> [NoCall("update") EXCEPT !.deltaTime = deltaTime,
                                                !.animateCalls = 1,
                                                !.seenProgress = a.progress,
                                                !.seenDelta = delta]]

NewAnimation(kind) ==
    [kind |-> kind, speed |-> 1, paused |-> FALSE, progress |-> 0, headBobbing |-> TRUE]

\* ------------------------------------------------------------- assemblies
\* A setter that forgets the biased material of layer 2.
setMapThreeMaterials(mats, newMap) ==
    LET m1 == [mats EXCEPT !["layer1Material"] = [map |-> newMap, needsUpdate |-> TRUE]]
        m2 == [m1 EXCEPT !["layer1MaterialBiased"] = [map |-> newMap, needsUpdate |-> TRUE]]
        m3 == [m2 EXCEPT !["layer2Material"] = [map |-> newMap, needsUpdate |-> TRUE]]
    IN  [map |-> newMap, materials |-> m3]

\* set map: _map and the four materials after the assignment.
setMap(mats, newMap) ==
    LET m1 == [mats EXCEPT !["layer1Material"] = [map |-> newMap, needsUpdate |-> TRUE]]
        m2 == [m1 EXCEPT !["layer1MaterialBiased"] = [map |-> newMap, needsUpdate |-> TRUE]]
        m3 == [m2 EXCEPT !["layer2Material"] = [map |-> newMap, needsUpdate |-> TRUE]]
        m4 == [m3 EXCEPT !["layer2MaterialBiased"] = [map |-> newMap, needsUpdate |-> TRUE]]
    IN  [map |-> newMap, materials |-> m4]

getMap == skinMap

ModelTypeOf(isSlim) == IF isSlim THEN "slim" ELSE "default"

getModelType == ModelTypeOf(slim)

\* A setter that notifies only when the flag changes.
setModelTypeOnChange(listeners, value) ==
    LET newSlim == (value = "slim")
    IN  [slim |-> newSlim,
         calls |-> IF newSlim = slim THEN <<>>
                   ELSE [i \in 1..Len(listeners) |->
                           [listener |-> listeners[i], arguments |-> 0,
                            modelType |-> ModelTypeOf(newSlim)]]]

\* set modelType: the flag, then one call per listener, in the order of the
\* list; a call records its listener, how many arguments it got and the
\* modelType it could read while it ran.
setModelType(listeners, value) ==
    LET newSlim == (value = "slim")
    IN  [slim |-> newSlim,
         calls |-> [i \in 1..Len(listeners) |->
                      [listener |-> listeners[i], arguments |-> 0,
                       modelType |-> ModelTypeOf(newSlim)]]]

\* A reset that leaves the head's roll.
SkinResetJointsXY(player) ==
    [player EXCEPT !.headRotation.x = Zero, !.headRotation.y = Zero]

SkinResetJoints(player) == [player EXCEPT !.headRotation = ZeroVec]

\* A reset of the whole pose, root included.
PlayerResetPose(player) ==
    [position |-> ZeroVec, rotation |-> ZeroVec, headRotation |-> ZeroVec]

PlayerResetJoints(player) == SkinResetJoints(player)

\* ------------------------------------------------------------- actions
\* The pose and the assemblies after new PlayerObject(): the constructors have
\* run setUVs on their boxes (box is the head box) and assigned modelType.
InitPlayer ==
    /\ position = ZeroVec
    /\ rotation = ZeroVec
    /\ headRotation = ZeroVec
    /\ call = NoCall("new")
    /\ skinMap = Null
    /\ materials = [m \in MaterialNames |-> [map |-> Null, needsUpdate |-> FALSE]]
    /\ slim = FALSE
    /\ listenerCalls = <<>>
    /\ innerVisible = TRUE
    /\ outerVisible = TRUE
    /\ earsVisible = FALSE
    /\ elapsed = 0

InitBox ==
    box = [args |-> HeadBoxArgs,
           uv |-> setSkinUVs(0, 0, 8, 8, 8),
           needsUpdate |-> TRUE]

\* The state after new PlayerObject() and new <Kind>Animation().
Init ==
    /\ anim \in {NewAnimation(k) : k \in Kinds}
    /\ modelListeners = <<>>
    /\ InitPlayer
    /\ InitBox

Update(deltaTime) ==
    LET r == update(anim, Player, deltaTime)
    IN  /\ r.anim.progress \in (0 - MaxNegProgress)..MaxProgress
        /\ anim' = r.anim
        /\ position' = r.player.position
        /\ rotation' = r.player.rotation
        /\ headRotation' = r.player.headRotation
        /\ call' = r.call
        /\ elapsed' = elapsed + (IF anim.paused THEN 0 ELSE deltaTime * anim.speed)
        /\ UNCHANGED <<skinVars, visibleVars, box>>

SetSpeed(s) ==
    /\ anim' = [anim EXCEPT !.speed = s]
    /\ call' = Assigned("speed", s)
    /\ UNCHANGED <<poseVars, skinVars, visibleVars, box, elapsed>>

SetPaused(b) ==
    /\ anim' = [anim EXCEPT !.paused = b]
    /\ call' = Assigned("paused", b)
    /\ UNCHANGED <<poseVars, skinVars, visibleVars, box, elapsed>>

SetHeadBobbing(b) ==
    /\ anim.kind = "Walking"
    /\ anim' = [anim EXCEPT !.headBobbing = b]
    /\ call' = Assigned("headBobbing", b)
    /\ UNCHANGED <<poseVars, skinVars, visibleVars, box, elapsed>>

SetMap(newMap) ==
    LET r == setMap(materials, newMap)
    IN  /\ skinMap' = r.map
        /\ materials' = r.materials
        /\ call' = Assigned("map", newMap)
        /\ UNCHANGED <<animVars, slim, modelListeners, listenerCalls, visibleVars, box, elapsed>>

SetModelType(value) ==
    LET r == setModelType(modelListeners, value)
    IN  /\ slim' = r.slim
        /\ listenerCalls' = r.calls
        /\ call' = Assigned("modelType", value)
        /\ UNCHANGED <<animVars, skinMap, materials, modelListeners, visibleVars, box, elapsed>>

setInnerLayerVisible(value) ==
    /\ innerVisible' = value
    /\ call' = Assigned("innerLayerVisible", value)
    /\ UNCHANGED <<animVars, skinVars, outerVisible, earsVisible, box, elapsed>>

setOuterLayerVisible(value) ==
    /\ outerVisible' = value
    /\ call' = Assigned("outerLayerVisible", value)
    /\ UNCHANGED <<animVars, skinVars, innerVisible, earsVisible, box, elapsed>>

SetEarsVisible(value) ==
    /\ earsVisible' = value
    /\ call' = Assigned("earsVisible", value)
    /\ UNCHANGED <<animVars, skinVars, innerVisible, outerVisible, box, elapsed>>

SkinObjectResetJoints ==
    LET r == SkinResetJoints(Player)
    IN  /\ position' = r.position
        /\ rotation' = r.rotation
        /\ headRotation' = r.headRotation
        /\ call' = Assigned("skin.resetJoints", headRotation)
        /\ UNCHANGED <<anim, skinVars, visibleVars, box, elapsed>>

PlayerObjectResetJoints ==
    LET r == PlayerResetJoints(Player)
    IN  /\ position' = r.position
        /\ rotation' = r.rotation
        /\ headRotation' = r.headRotation
        /\ call' = Assigned("player.resetJoints", headRotation)
        /\ UNCHANGED <<anim, skinVars, visibleVars, box, elapsed>>

\* setUVs(box, ...) on a box built with the arguments box.args.
SetUVs ==
    /\ box' = [box EXCEPT !.uv = setUVs(box.args), !.needsUpdate = TRUE]
    /\ call' = NoCall("setUVs")
    /\ UNCHANGED <<animVars, skinVars, visibleVars, elapsed>>

\* The operations on the animation and the pose.
NextAnim ==
    \/ \E deltaTime \in DeltaTimes : Update(deltaTime)
    \/ \E s \in Speeds : SetSpeed(s)
    \/ \E b \in BOOLEAN : SetPaused(b)
    \/ \E b \in BOOLEAN : SetHeadBobbing(b)
    \/ SkinObjectResetJoints
    \/ PlayerObjectResetJoints

\* The operations on the skin assembly.
NextSkin ==
    \/ \E newMap \in Textures \cup {Null} : SetMap(newMap)
    \/ \E value \in ModelTypes : SetModelType(value)
    \/ \E value \in BOOLEAN : setInnerLayerVisible(value)
    \/ \E value \in BOOLEAN : setOuterLayerVisible(value)
    \/ \E value \in BOOLEAN : SetEarsVisible(value)
    \/ SkinObjectResetJoints

\* A player under an animation left at its default speed, with every
\* operation of the assemblies.
NextPlayer ==
    \/ \E deltaTime \in DeltaTimes : Update(deltaTime)
    \/ \E newMap \in Textures \cup {Null} : SetMap(newMap)
    \/ \E value \in ModelTypes : SetModelType(value)
    \/ \E value \in BOOLEAN : setInnerLayerVisible(value)
    \/ \E value \in BOOLEAN : setOuterLayerVisible(value)
    \/ \E value \in BOOLEAN : SetEarsVisible(value)
    \/ SkinObjectResetJoints
    \/ PlayerObjectResetJoints

NextUV == SetUVs

Next == NextAnim \/ NextSkin

\* A skin assembly whose listener list is given: the source keeps the list
\* private and never adds to it, so its content is an input of the setter.
InitSkin ==
    /\ anim = NewAnimation("Idle")
    /\ modelListeners \in ListenerLists
    /\ InitPlayer
    /\ InitBox

\* A box about to be mapped: the call sites of the source, and small boxes
\* and atlases, fitting or not.
UVInputs ==
    {HeadBoxArgs, Head2BoxArgs, EarBoxArgs} \cup
    {UVArgs(u, v, width, height, depth, tw, th) :
        u \in 0..MaxOffset, v \in 0..MaxOffset,
        width \in 0..MaxSize, height \in 0..MaxSize, depth \in 0..MaxSize,
        tw \in 1..MaxAtlas, th \in 1..MaxAtlas}

InitUV ==
    /\ anim = NewAnimation("Idle")
    /\ modelListeners = <<>>
    /\ InitPlayer
    /\ box \in {[args |-> a, uv |-> <<>>, needsUpdate |-> FALSE] : a \in UVInputs}

Spec == Init /\ [][Next]_vars
SpecAnim == Init /\ [][NextAnim]_vars
SpecSkin == InitSkin /\ [][NextSkin]_vars
SpecPlayer == Init /\ [][NextPlayer]_vars
SpecUV == InitUV /\ [][NextUV]_vars

\* ------------------------------------------------------------- claims
IsUpdate == call.op = "update"
IsReset == call.op \in {"skin.resetJoints", "player.resetJoints"}

\* C1: an update called while paused changes nothing: progress, speed and
\* paused keep their values, the pose function is not called and no pose
\* field of the player changes.
C1_PausedUpdateChangesNothing ==
    [][(call'.op = "update" /\ anim.paused) =>
          /\ anim' = anim
          /\ call'.animateCalls = 0
          /\ position' = position
          /\ rotation' = rotation
          /\ headRotation' = headRotation]_vars

\* A paused update with a non-zero scaled time, on a player already posed.
C1_Witness ==
    /\ IsUpdate
    /\ anim.paused
    /\ call.deltaTime * anim.speed # 0
    /\ headRotation # ZeroVec
    /\ anim.progress # 0

\* C2: an unpaused update calls the pose function exactly once, with
\* delta = deltaTime * speed and the progress of before the call, and then
\* adds deltaTime * speed to progress; a FunctionAnimation's function gets
\* that progress and that delta; progress is the sum of the scaled times of
\* the unpaused calls.
C2_PoseThenProgress ==
    /\ [][(call'.op = "update" /\ ~anim.paused) =>
            /\ call'.animateCalls = 1
            /\ call'.seenProgress = anim.progress
            /\ call'.seenDelta = call'.deltaTime * anim.speed
            /\ anim'.progress = anim.progress + call'.deltaTime * anim.speed
            /\ anim.kind = "Function" =>
                  /\ rotation'.y = Lit(anim.progress)
                  /\ headRotation'.z = Lit(call'.deltaTime * anim.speed)]_vars
    /\ [](anim.progress = elapsed)

\* An unpaused update of a FunctionAnimation, at a speed other than 1, which
\* started from a non-zero progress and moved it.
C2_Witness ==
    /\ IsUpdate
    /\ call.animateCalls = 1
    /\ anim.kind = "Function"
    /\ call.seenProgress # 0
    /\ call.seenDelta # 0
    /\ call.seenDelta # call.deltaTime
    /\ rotation.y = Lit(call.seenProgress)
    /\ anim.progress # call.seenProgress

AllMaterials(P(_)) == \A m \in MaterialNames : P(materials[m])
MapIs(value) == LET Has(mat) == mat.map = value IN AllMaterials(Has)
AllNeedUpdate == LET Flagged(mat) == mat.needsUpdate IN AllMaterials(Flagged)

\* C3: the map getter returns the last value assigned (null before any), the
\* four materials hold that value with needsUpdate set once it was assigned,
\* and in every state the four maps equal the getter's value.
C3_MapReachesAllMaterials ==
    /\ [](/\ MapIs(getMap)
          /\ call.op = "new" => getMap = Null
          /\ call.op = "map" => (getMap = call.value /\ AllNeedUpdate))
    /\ [][call'.op # "map" => (skinMap' = skinMap /\ materials' = materials)]_vars

\* A texture assigned: the getter and the four materials hold it.
C3_Witness ==
    /\ call.op = "map"
    /\ call.value = MaxTextures
    /\ getMap = MaxTextures
    /\ MapIs(MaxTextures)
    /\ AllNeedUpdate

\* C4: an assignment to modelType sets the flag, then calls every listener
\* once, in the order of the list, without arguments; the getter then returns
\* "slim" iff "slim" was assigned.
C4_ListenersNotifiedInOrder ==
    call.op = "modelType" =>
        /\ getModelType = (IF call.value = "slim" THEN "slim" ELSE "default")
        /\ Len(listenerCalls) = Len(modelListeners)
        /\ \A i \in 1..Len(modelListeners) :
              /\ listenerCalls[i].listener = modelListeners[i]
              /\ listenerCalls[i].arguments = 0
              /\ listenerCalls[i].modelType = call.value

\* "slim" assigned to a skin that has two different listeners.
C4_Witness ==
    /\ call.op = "modelType"
    /\ call.value = "slim"
    /\ Len(modelListeners) = 2
    /\ modelListeners[1] # modelListeners[2]
    /\ Len(listenerCalls) = 2

\* C5: after resetJoints of the SkinObject or of the PlayerObject the head's
\* rotation is (0, 0, 0).
C5_ResetZeroesHead == IsReset => headRotation = ZeroVec

\* resetJoints of the player after a FlyingAnimation pitched the head.
C5_Witness ==
    /\ call.op = "player.resetJoints"
    /\ anim.kind = "Flying"
    /\ call.value.x # Zero
    /\ headRotation = ZeroVec

\* The emitted uv data read back: corner k of the i-th face written, the
\* faces being written in the order right, left, top, bottom, front, back.
Faces == {"right", "left", "top", "bottom", "front", "back"}
FaceAt(face) ==
    CASE face = "right" -> 1 [] face = "left" -> 2 [] face = "top" -> 3
      [] face = "bottom" -> 4 [] face = "front" -> 5 [] face = "back" -> 6
Corner(face, k) ==
    Vector2(box.uv[8 * (FaceAt(face) - 1) + 2 * k - 1], box.uv[8 * (FaceAt(face) - 1) + 2 * k])
EmittedQuad(face) == <<Corner(face, 1), Corner(face, 2), Corner(face, 3), Corner(face, 4)>>

SetMin(S) == CHOOSE x \in S : \A y \in S : x <= y
SetMax(S) == CHOOSE x \in S : \A y \in S : x >= y

\* The texel a uv coordinate stands for.
TexelX(f) == (f.n * box.args.textureWidth) \div f.d
TexelY(f) == ((f.d - f.n) * box.args.textureHeight) \div f.d
Texels(face) == {<<TexelX(Corner(face, k).x), TexelY(Corner(face, k).y)>> : k \in 1..4}

Rect(x1, x2, y1, y2) == [x1 |-> x1, x2 |-> x2, y1 |-> y1, y2 |-> y2]
EmittedRect(face) ==
    LET xs == {t[1] : t \in Texels(face)}
        ys == {t[2] : t \in Texels(face)}
    IN  Rect(SetMin(xs), SetMax(xs), SetMin(ys), SetMax(ys))
CornersOf(r) == {<<r.x1, r.y1>>, <<r.x1, r.y2>>, <<r.x2, r.y1>>, <<r.x2, r.y2>>}

\* The cross layout of the skin format.
CrossLayout(a, face) ==
    LET u == a.u  v == a.v  w == a.width  h == a.height  d == a.depth
    IN  CASE face = "top" -> Rect(u + d, u + d + w, v, v + d)
          [] face = "bottom" -> Rect(u + d + w, u + d + 2 * w, v, v + d)
          [] face = "left" -> Rect(u, u + d, v + d, v + d + h)
          [] face = "front" -> Rect(u + d, u + d + w, v + d, v + d + h)
          [] face = "right" -> Rect(u + d + w, u + 2 * d + w, v + d, v + d + h)
          [] face = "back" -> Rect(u + 2 * d + w, u + 2 * d + 2 * w, v + d, v + d + h)

Larger(a, b) == IF a >= b THEN a ELSE b
Smaller(a, b) == IF a <= b THEN a ELSE b
InteriorsMeet(r, s) ==
    /\ Larger(r.x1, s.x1) < Smaller(r.x2, s.x2)
    /\ Larger(r.y1, s.y1) < Smaller(r.y2, s.y2)

InUnit(f) == f.d > 0 /\ 0 <= f.n /\ f.n <= f.d

Fits(a) ==
    /\ a.u + 2 * a.width + 2 * a.depth <= a.textureWidth
    /\ a.v + a.depth + a.height <= a.textureHeight

\* C6: for a box that fits its atlas, every uv coordinate setUVs writes is in
\* [0, 1], each face's corners are the corners of its rectangle of the cross
\* layout, and no two of the six rectangles share interior texels.
C6_UVsFollowCrossLayout ==
    (box.needsUpdate /\ Fits(box.args)) =>
        /\ Len(box.uv) = 48
        /\ \A j \in 1..Len(box.uv) : InUnit(box.uv[j])
        /\ \A face \in Faces :
              /\ EmittedRect(face) = CrossLayout(box.args, face)
              /\ Texels(face) = CornersOf(CrossLayout(box.args, face))
        /\ \A f, g \in Faces :
              f # g => ~InteriorsMeet(EmittedRect(f), EmittedRect(g))

\* The ears' box, which fills its 14x7 atlas, after setUVs.
C6_Witness ==
    /\ call.op = "setUVs"
    /\ box.needsUpdate
    /\ box.args = EarBoxArgs
    /\ Fits(box.args)

\* The order in which a face's corners were written: the indices i0..i3 for
\* which the face's quad is [q[i0], q[i1], q[i2], q[i3]], q being
\* toFaceVertices of the face's rectangle.
Orders == {p \in [1..4 -> 0..3] : \A i, j \in 1..4 : p[i] = p[j] => i = j}
OrderOf(face) ==
    LET r == EmittedRect(face)
        q == toFaceVertices(r.x1, r.y1, r.x2, r.y2,
                            box.args.textureWidth, box.args.textureHeight)
    IN  {p \in Orders : EmittedQuad(face) = Reorder(q, p[1], p[2], p[3], p[4])}

\* A box whose faces all have four different corners.
Solid(a) == a.width > 0 /\ a.height > 0 /\ a.depth > 0

\* C9 as stated: right, left, front and back share one order, the top face
\* has another and the bottom face a third.
C9_ThreeOrders ==
    (box.needsUpdate /\ Solid(box.args)) =>
        /\ OrderOf("left") = OrderOf("right")
        /\ OrderOf("front") = OrderOf("right")
        /\ OrderOf("back") = OrderOf("right")
        /\ OrderOf("top") # OrderOf("right")
        /\ OrderOf("bottom") # OrderOf("right")
        /\ OrderOf("bottom") # OrderOf("top")

\* C9, amended: setUVs uses two orders: right, left, top, front and back are
\* written as [q[3], q[2], q[0], q[1]] and the bottom face alone as
\* [q[0], q[1], q[3], q[2]].
C9_TwoOrders ==
    (box.needsUpdate /\ Solid(box.args)) =>
        /\ \A face \in Faces \ {"bottom"} : OrderOf(face) = {<<3, 2, 0, 1>>}
        /\ OrderOf("bottom") = {<<0, 1, 3, 2>>}

\* The head's box after setUVs.
C9_Witness ==
    /\ call.op = "setUVs"
    /\ box.needsUpdate
    /\ box.args = HeadBoxArgs
    /\ Solid(box.args)

\* startProgress, in hundredths, as the claim gives it: t = progress * 20
\* for a positive progress (in tenths of a second) and 0 otherwise, t * t / 100
\* cut to [0, 1].
C7_StartProgress(progress) ==
    LET t == IF progress > 0 THEN 2 * progress ELSE 0
    IN  IF t * t > 100 THEN 100 ELSE t * t

\* C7: an update of a FlyingAnimation sets the body pitch to
\* startProgress * pi/2, in [0, pi/2], and the head pitch to pi/4 minus the
\* body pitch when startProgress > 0.5 and to 0 otherwise; startProgress is
\* in [0, 1], and 0 for every progress <= 0.
C7_FlyingPitch ==
    (IsUpdate /\ call.animateCalls = 1 /\ anim.kind = "Flying") =>
        LET sp == C7_StartProgress(call.seenProgress)
        IN  /\ StartProgress(call.seenProgress) = sp
            /\ sp \in 0..100
            /\ call.seenProgress <= 0 => sp = 0
            /\ rotation.x = (IF sp = 0 THEN Zero ELSE <<"pi", sp, 200, 0, 0>>)
            /\ headRotation.x = (IF sp > 50 THEN <<"pi", 50 - sp, 200, 0, 0>> ELSE Zero)

\* A flying update half-way through the turn: startProgress = 0.64.
C7_Witness ==
    /\ IsUpdate
    /\ call.animateCalls = 1
    /\ anim.kind = "Flying"
    /\ call.seenProgress = 4
    /\ rotation.x = <<"pi", 64, 200, 0, 0>>
    /\ headRotation.x = <<"pi", 0 - 14, 200, 0, 0>>

\* A flying update at a negative progress.
C7_NegativeProgress ==
    /\ IsUpdate
    /\ call.animateCalls = 1
    /\ anim.kind = "Flying"
    /\ call.seenProgress < 0

\* C8 as stated: progress starts at 0 and no unpaused update lowers it.
C8_NeverLower ==
    /\ [](call.op = "new" => anim.progress = 0)
    /\ [][(call'.op = "update" /\ ~anim.paused) => anim'.progress >= anim.progress]_vars

\* C8, amended: progress starts at 0 and no unpaused update whose scaled time
\* deltaTime * speed is >= 0 lowers it; an unpaused update with a negative
\* scaled time lowers it by that amount.
C8_NeverLowerForward ==
    /\ [](call.op = "new" => anim.progress = 0)
    /\ [][(call'.op = "update" /\ ~anim.paused) =>
            /\ call'.deltaTime * anim.speed >= 0 => anim'.progress >= anim.progress
            /\ call'.deltaTime * anim.speed < 0 =>
                  anim'.progress = anim.progress + call'.deltaTime * anim.speed]_vars

\* An unpaused update that moved progress forward.
C8_Witness ==
    /\ IsUpdate
    /\ call.animateCalls = 1
    /\ call.seenDelta > 0
    /\ anim.progress > call.seenProgress

\* C10: resetJoints of the PlayerObject changes the head's rotation and
\* nothing else: the root's position and rotation, the animation, the skin's
\* map and modelType and the visibility of the layers and ears stay.
C10_ResetKeepsTheRest ==
    [][call'.op = "player.resetJoints" =>
          /\ headRotation' = ZeroVec
          /\ position' = position
          /\ rotation' = rotation
          /\ anim' = anim
          /\ skinMap' = skinMap
          /\ materials' = materials
          /\ slim' = slim
          /\ innerVisible' = innerVisible
          /\ outerVisible' = outerVisible
          /\ earsVisible' = earsVisible]_vars

\* resetJoints on a running player, off the ground, with a texture, slim,
\* ears shown and the outer layer hidden.
C10_Witness ==
    /\ call.op = "player.resetJoints"
    /\ anim.kind = "Running"
    /\ anim.progress > 0
    /\ position.y # Zero
    /\ position.x # Zero
    /\ rotation.z # Zero
    /\ skinMap # Null
    /\ slim
    /\ earsVisible
    /\ ~outerVisible

\* resetJoints on a flying player that has pitched over.
C10_FlyingPose ==
    /\ call.op = "player.resetJoints"
    /\ anim.kind = "Flying"
    /\ call.value.x # Zero
    /\ rotation.x = <<"pi", 100, 200, 0, 0>>
====
